---------------------------- MODULE Spec2Model ----------------------------
(***************************************************************************)
(* Model of the in-memory task registry of bt-manager-api (src/main.py)    *)
(* and of the task factory it calls (src/tasks.py).                        *)
(*                                                                         *)
(* The registry is the module-level dict `tasks` (uuid -> TaskData).  Each *)
(* TaskData owns one asyncio.Task; the lifecycle state is derived from the *)
(* asyncio.Task on demand (TaskData.state_result).  The request handlers   *)
(* are coroutines without an await, so each runs atomically with respect   *)
(* to the event loop; the only other steps are those of the event loop:    *)
(* a task finishing, a requested cancellation being delivered, and a done  *)
(* callback being run.  The value a handler returns is kept in `last`      *)
(* until the response is sent (the step `respond`).                        *)
(*                                                                         *)
(* The registry's create operation is _create_task.  Of the two routes     *)
(* that call it, create_sleep_task passes the name "sleep_task", which     *)
(* tasks.factory does not hold, and recreate_tasks needs a record to copy; *)
(* the model therefore also takes _create_task as an operation of its own. *)
(***************************************************************************)
EXTENDS Integers, Sequences, FiniteSets, TLC

(***************************************************************************)
(* Bounds of the model.                                                    *)
(***************************************************************************)
\* number of uuid1() values generated (records ever created)
MaxTasks == 2
\* largest reading of the clock; datetime.now() stops advancing there
MaxNow == 2
\* longest `ids` query list of a request
MaxIds == 3

(***************************************************************************)
(* Values.                                                                 *)
(***************************************************************************)
\* Python's None where a datetime is expected (end_date), as an integer so
\* that it compares with clock readings
NoDate == -1

\* Python's None as a task result
None == "None"

\* the keys of tasks.factory
factory == {"sleep_10_task", "sleep_100_task", "sleep_1000_task"}

\* the task names given to _create_task: two registered ones and the
\* unregistered name create_sleep_task passes
NameInputs == {"sleep_10_task", "sleep_100_task", "sleep_task"}

\* keyword arguments, a dict as its set of (key, value) items, so that
\* dict equality is equality of the item sets
KwargsInputs == {{}, {<<"delay", 1>>}}

\* the delays given to create_sleep_task
DelayInputs == {1}

\* uuid strings a request can name: every uuid that uuid1() can have
\* generated, and one that it never generates
IdInputs == 1..(MaxTasks + 1)

\* the `ids` query lists of a request: the lists of at most MaxIds uuids,
\* repetitions included, in non-decreasing order
RECURSIVE SeqsUpTo(_, _)
SeqsUpTo(S, n) ==
    IF n = 0 THEN {<<>>}
    ELSE LET shorter == SeqsUpTo(S, n - 1)
         IN  shorter \cup {Append(s, x) : s \in {t \in shorter : Len(t) = n - 1},
                                          x \in S}

IdsInputs ==
    {s \in SeqsUpTo(IdInputs, MaxIds) : \A i \in 1..(Len(s) - 1) : s[i] <= s[i + 1]}

VARIABLES
    tasks,      \* main.tasks: uuid -> TaskData (uuid, kwargs, start_date, end_date)
    handle,     \* the asyncio.Task of every TaskData ever created, by uuid
    now,        \* the next reading of datetime.now()
    next_uuid,  \* the next value of uuid1()
    last        \* the last call made on the registry and what it returned

vars == <<tasks, handle, now, next_uuid, last>>

(***************************************************************************)
(* datetime.now(): readings never decrease.  A reading advances the clock  *)
(* until MaxNow, where further readings repeat.                            *)
(***************************************************************************)
Advance(clk) == IF clk < MaxNow THEN clk + 1 ELSE clk

(***************************************************************************)
(* set(ids) and the orders in which `for id_ in set(ids)` can visit it.    *)
(***************************************************************************)
ToSet(ids) == {ids[i] : i \in 1..Len(ids)}

Orders(S) ==
    {s \in [1..Cardinality(S) -> S] : \A i, j \in 1..Cardinality(S) : s[i] = s[j] => i = j}

(***************************************************************************)
(* asyncio.Task, as the registry sees it.                                  *)
(*   status      "pending"   not done: result() raises InvalidStateError   *)
(*               "finished"  done with a result                            *)
(*               "failed"    done with an exception                        *)
(*               "cancelled" done by cancellation                          *)
(*   must_cancel cancel() was called while the task was not done           *)
(*   callback    "none" | "added" | "scheduled" (the task is done and the  *)
(*               loop has the callback in its ready queue) | "called"      *)
(***************************************************************************)
NewTask(name) ==
    [name |-> name, status |-> "pending", must_cancel |-> FALSE,
     callback |-> "none", result |-> None]

\* Task.done()
done(t) == t.status # "pending"

\* Task.cancel(): a request; nothing happens to a task that is done
cancel(t) == IF done(t) THEN t ELSE [t EXCEPT !.must_cancel = TRUE]

\* Task.add_done_callback() on a task that is not done
add_done_callback(t) == [t EXCEPT !.callback = "added"]

(***************************************************************************)
(* TaskData                                                                *)
(***************************************************************************)
\* state_result with CancelledError handled as any other exception is
state_result_exception_first(t) ==
    CASE t.status = "finished"  -> <<"SUCCESS", t.result>>
      [] t.status = "pending"   -> <<"STARTED", None>>
      [] OTHER                  -> <<"FAILURE", None>>

state_result(t) ==
    CASE t.status = "finished"  -> <<"SUCCESS", t.result>>
      [] t.status = "cancelled" -> <<"REVOKED", None>>
      [] t.status = "pending"   -> <<"STARTED", None>>
      [] OTHER                  -> <<"FAILURE", None>>

\* is_in_process without "STARTED" in its list
is_in_process_without_started(t) == state_result(t)[1] \in {"PENDING", "RETRY"}

\* is_in_process true of the terminal states too
is_in_process_in_any_state(t) ==
    state_result(t)[1] \in {"PENDING", "STARTED", "RETRY", "SUCCESS", "FAILURE", "REVOKED"}

is_in_process(t) == state_result(t)[1] \in {"PENDING", "STARTED", "RETRY"}

\* is_not_in_process without "REVOKED" in its list
is_not_in_process_without_revoked(t) == state_result(t)[1] \in {"SUCCESS", "FAILURE"}

is_not_in_process(t) == state_result(t)[1] \in {"SUCCESS", "FAILURE", "REVOKED"}

(***************************************************************************)
(* TaskInfo and ErrorInfo                                                  *)
(***************************************************************************)
\* from_task_data without the assignment of state_result: the TaskInfo keeps
\* the state it was constructed with
from_task_data_state_as_constructed(task_data, t) ==
    [kind |-> "TaskInfo",
     uuid |-> task_data.uuid,
     name |-> t.name,
     kwargs |-> task_data.kwargs,
     start_date |-> task_data.start_date,
     end_date |-> task_data.end_date,
     state |-> "PENDING",
     result |-> None]

from_task_data(task_data, t) ==
    [kind |-> "TaskInfo",
     uuid |-> task_data.uuid,
     name |-> t.name,
     kwargs |-> task_data.kwargs,
     start_date |-> task_data.start_date,
     end_date |-> task_data.end_date,
     state |-> state_result(t)[1],
     result |-> state_result(t)[2]]

not_exist_data(uuid) ==
    [kind |-> "ErrorInfo", uuid |-> uuid, error_code |-> 0,
     error_msg |-> "the task does not exist"]

in_process_data(uuid) ==
    [kind |-> "ErrorInfo", uuid |-> uuid, error_code |-> 0,
     error_msg |-> "task is in process"]

not_in_process_data(uuid) ==
    [kind |-> "ErrorInfo", uuid |-> uuid, error_code |-> 0,
     error_msg |-> "task is not in process"]

(***************************************************************************)
(* The registry's state as one value, for the helpers that a handler calls *)
(* in a loop.                                                              *)
(***************************************************************************)
Reg(t, h, clk, nu) == [tasks |-> t, handle |-> h, now |-> clk, next_uuid |-> nu]

Cur == Reg(tasks, handle, now, next_uuid)

_get_task_info(r, id) == from_task_data(r.tasks[id], r.handle[id])

\* the call a handler was given and what it returned
Call(op, name, kwargs, given, ids, raised, ret) ==
    [op |-> op, name |-> name, kwargs |-> kwargs, given |-> given, ids |-> ids,
     raised |-> raised, ret |-> ret]

NoCall == Call("none", "", {}, FALSE, <<>>, FALSE, <<>>)

Extend(f, k, v) == [x \in DOMAIN f \cup {k} |-> IF x = k THEN v ELSE f[x]]

Remove(f, k) == [x \in DOMAIN f \ {k} |-> f[x]]


(***************************************************************************)
(* _create_task: the identity of an in-process duplicate, or a new record. *)
(* `raised` is the KeyError of tasks_factory[name].                        *)
(***************************************************************************)
Duplicates(r, name, kwargs) ==
    {id \in DOMAIN r.tasks :
        /\ r.handle[id].name = name
        /\ r.tasks[id].kwargs = kwargs
        /\ is_in_process(r.handle[id])}

\* next(...) over tasks.values(): the first match in insertion order, which
\* is the order of the uuids
First(S) == CHOOSE x \in S : \A y \in S : x <= y

\* _create_task launching a task of the factory's first name for a name that
\* the factory does not have
_create_task_with_default(r, name, kwargs) ==
    IF Duplicates(r, name, kwargs) # {}
    THEN [reg |-> r, raised |-> FALSE, uuid |-> First(Duplicates(r, name, kwargs))]
    ELSE LET uuid == r.next_uuid
             known == IF name \in factory THEN name ELSE "sleep_10_task"
             task == add_done_callback(NewTask(known))
             task_data == [uuid |-> uuid, kwargs |-> kwargs,
                           start_date |-> r.now, end_date |-> NoDate]
         IN  [reg |-> Reg(Extend(r.tasks, uuid, task_data),
                          Extend(r.handle, uuid, task),
                          Advance(r.now), uuid + 1),
              raised |-> FALSE, uuid |-> uuid]

_create_task(r, name, kwargs) ==
    IF Duplicates(r, name, kwargs) # {}
    THEN [reg |-> r, raised |-> FALSE, uuid |-> First(Duplicates(r, name, kwargs))]
    ELSE IF name \notin factory
    THEN [reg |-> r, raised |-> TRUE, uuid |-> 0]
    ELSE LET uuid == r.next_uuid
             task == add_done_callback(NewTask(name))
             task_data == [uuid |-> uuid, kwargs |-> kwargs,
                           start_date |-> r.now, end_date |-> NoDate]
         IN  [reg |-> Reg(Extend(r.tasks, uuid, task_data),
                          Extend(r.handle, uuid, task),
                          Advance(r.now), uuid + 1),
              raised |-> FALSE, uuid |-> uuid]

\* _cancel_task dropping the record that it cancels
_cancel_task_removing_record(r, id) ==
    Reg(Remove(r.tasks, id),
        [r.handle EXCEPT ![id] = cancel(r.handle[id])],
        Advance(r.now), r.next_uuid)

_cancel_task(r, id) ==
    Reg([r.tasks EXCEPT ![id].end_date = r.now],
        [r.handle EXCEPT ![id] = cancel(r.handle[id])],
        Advance(r.now), r.next_uuid)

\* _delete_task removing the record without a call of Task.cancel()
_delete_task_without_cancel(r, id) ==
    Reg(Remove(r.tasks, id), r.handle, r.now, r.next_uuid)

_delete_task(r, id) ==
    Reg(Remove(r.tasks, id),
        IF ~done(r.handle[id])
        THEN [r.handle EXCEPT ![id] = cancel(r.handle[id])]
        ELSE r.handle,
        r.now, r.next_uuid)

(***************************************************************************)
(* The loops of the handlers.  Each takes the registry and the result list *)
(* so far and returns both after visiting order[i..].                      *)
(***************************************************************************)
\* the loop of recreate_tasks without the check of is_in_process
RECURSIVE RecreateLoopWithoutInProcessCheck(_, _, _, _)
RecreateLoopWithoutInProcessCheck(r, order, i, res) ==
    IF i > Len(order) THEN [reg |-> r, res |-> res, raised |-> FALSE]
    ELSE LET id == order[i] IN
         IF id \notin DOMAIN r.tasks
         THEN RecreateLoopWithoutInProcessCheck(r, order, i + 1,
                                                Append(res, not_exist_data(id)))
         ELSE LET c == _create_task(r, r.handle[id].name, r.tasks[id].kwargs) IN
              IF c.raised THEN [reg |-> r, res |-> res, raised |-> TRUE]
              ELSE RecreateLoopWithoutInProcessCheck(
                       c.reg, order, i + 1, Append(res, _get_task_info(c.reg, c.uuid)))

RECURSIVE RecreateLoop(_, _, _, _)
RecreateLoop(r, order, i, res) ==
    IF i > Len(order) THEN [reg |-> r, res |-> res, raised |-> FALSE]
    ELSE LET id == order[i] IN
         IF id \notin DOMAIN r.tasks
         THEN RecreateLoop(r, order, i + 1, Append(res, not_exist_data(id)))
         ELSE IF is_in_process(r.handle[id])
         THEN RecreateLoop(r, order, i + 1, Append(res, in_process_data(id)))
         ELSE LET c == _create_task(r, r.handle[id].name, r.tasks[id].kwargs) IN
              IF c.raised THEN [reg |-> r, res |-> res, raised |-> TRUE]
              ELSE RecreateLoop(c.reg, order, i + 1,
                                Append(res, _get_task_info(c.reg, c.uuid)))

RECURSIVE CancelAllLoop(_, _, _)
CancelAllLoop(r, order, i) ==
    IF i > Len(order) THEN r
    ELSE CancelAllLoop(_cancel_task(r, order[i]), order, i + 1)

\* the loop of cancel_tasks returning at the first uuid it has an error for
RECURSIVE CancelLoopReturningEarly(_, _, _, _)
CancelLoopReturningEarly(r, order, i, res) ==
    IF i > Len(order) THEN [reg |-> r, res |-> res]
    ELSE LET id == order[i] IN
         IF id \notin DOMAIN r.tasks
         THEN [reg |-> r, res |-> Append(res, not_exist_data(id))]
         ELSE IF is_not_in_process(r.handle[id])
         THEN [reg |-> r, res |-> Append(res, not_in_process_data(id))]
         ELSE CancelLoopReturningEarly(_cancel_task(r, id), order, i + 1, res)

RECURSIVE CancelLoop(_, _, _, _)
CancelLoop(r, order, i, res) ==
    IF i > Len(order) THEN [reg |-> r, res |-> res]
    ELSE LET id == order[i] IN
         IF id \notin DOMAIN r.tasks
         THEN CancelLoop(r, order, i + 1, Append(res, not_exist_data(id)))
         ELSE IF is_not_in_process(r.handle[id])
         THEN CancelLoop(r, order, i + 1, Append(res, not_in_process_data(id)))
         ELSE CancelLoop(_cancel_task(r, id), order, i + 1, res)

RECURSIVE DeleteLoop(_, _, _, _)
DeleteLoop(r, order, i, res) ==
    IF i > Len(order) THEN [reg |-> r, res |-> res]
    ELSE LET id == order[i] IN
         IF id \notin DOMAIN r.tasks
         THEN DeleteLoop(r, order, i + 1, Append(res, not_exist_data(id)))
         ELSE DeleteLoop(_delete_task(r, id), order, i + 1, res)

\* the keys of the dict `tasks` in iteration (insertion) order
RECURSIVE Ascending(_)
Ascending(S) == IF S = {} THEN <<>> ELSE <<First(S)>> \o Ascending(S \ {First(S)})

keys(t) == Ascending(DOMAIN t)

running_task_ids(r) ==
    SelectSeq(keys(r.tasks), LAMBDA id : is_not_in_process(r.handle[id]))

ReadAll(r) == [i \in 1..Len(keys(r.tasks)) |-> _get_task_info(r, keys(r.tasks)[i])]

ReadEach(r, ids) ==
    [i \in 1..Len(ids) |->
        IF ids[i] \in DOMAIN r.tasks THEN _get_task_info(r, ids[i])
        ELSE not_exist_data(ids[i])]

(***************************************************************************)
(* A handler runs from the state the event loop is in when it picks the    *)
(* request up (no call in progress) to its return statement; the state     *)
(* after it holds the call and the value returned.                         *)
(***************************************************************************)
Becomes(r, call) ==
    /\ last = NoCall
    /\ r.next_uuid <= MaxTasks + 1
    /\ tasks' = r.tasks
    /\ handle' = r.handle
    /\ now' = r.now
    /\ next_uuid' = r.next_uuid
    /\ last' = call

Init ==
    /\ tasks = <<>>
    /\ handle = <<>>
    /\ now = 0
    /\ next_uuid = 1
    /\ last = NoCall

(***************************************************************************)
(* The operations of the registry.                                         *)
(***************************************************************************)
create_task(name, kwargs) ==
    LET c == _create_task(Cur, name, kwargs) IN
    Becomes(c.reg, Call("create", name, kwargs, FALSE, <<>>, c.raised,
                        IF c.raised THEN <<>> ELSE <<c.uuid>>))

create_sleep_task(delay) ==
    LET c == _create_task(Cur, "sleep_task", {<<"delay", delay>>}) IN
    Becomes(c.reg, Call("create_sleep_task", "sleep_task", {<<"delay", delay>>},
                        FALSE, <<>>, c.raised,
                        IF c.raised THEN <<>> ELSE <<_get_task_info(c.reg, c.uuid)>>))

recreate_tasks(ids) ==
    \E order \in Orders(ToSet(ids)) :
        LET l == RecreateLoop(Cur, order, 1, <<>>) IN
        Becomes(l.reg, Call("recreate", "", {}, TRUE, ids, l.raised,
                            IF l.raised THEN <<>> ELSE l.res))

read_tasks_all ==
    Becomes(Cur, Call("read", "", {}, FALSE, <<>>, FALSE, ReadAll(Cur)))

read_tasks(ids) ==
    Becomes(Cur, Call("read", "", {}, TRUE, ids, FALSE, ReadEach(Cur, ids)))

cancel_tasks_all ==
    Becomes(CancelAllLoop(Cur, running_task_ids(Cur), 1),
            Call("cancel", "", {}, FALSE, <<>>, FALSE, <<>>))

cancel_tasks(ids) ==
    \E order \in Orders(ToSet(ids)) :
        LET l == CancelLoop(Cur, order, 1, <<>>) IN
        Becomes(l.reg, Call("cancel", "", {}, TRUE, ids, FALSE, l.res))

delete_tasks_all ==
    Becomes(CancelAllLoop(Cur, keys(tasks), 1),
            Call("delete", "", {}, FALSE, <<>>, FALSE, <<>>))

delete_tasks(ids) ==
    \E order \in Orders(ToSet(ids)) :
        LET l == DeleteLoop(Cur, order, 1, <<>>) IN
        Becomes(l.reg, Call("delete", "", {}, TRUE, ids, FALSE, l.res))

(***************************************************************************)
(* The steps of the event loop.                                            *)
(***************************************************************************)
\* asyncio.sleep() returns: the task is done with the result None and the
\* loop schedules its done callbacks
task_finishes(id) ==
    /\ last = NoCall
    /\ id \in DOMAIN handle
    /\ handle[id].status = "pending"
    /\ ~handle[id].must_cancel
    /\ handle' = [handle EXCEPT ![id].status = "finished", ![id].result = None,
                                 ![id].callback = "scheduled"]
    /\ UNCHANGED last
    /\ UNCHANGED <<tasks, now, next_uuid>>

\* the requested CancelledError is thrown into the coroutine, which does
\* not catch it: the task is done, cancelled
task_is_cancelled(id) ==
    /\ last = NoCall
    /\ id \in DOMAIN handle
    /\ handle[id].status = "pending"
    /\ handle[id].must_cancel
    /\ handle' = [handle EXCEPT ![id].status = "cancelled", ![id].must_cancel = FALSE,
                                 ![id].callback = "scheduled"]
    /\ UNCHANGED last
    /\ UNCHANGED <<tasks, now, next_uuid>>

\* the loop runs finish_callback, which writes to the TaskData it closed
\* over, in the registry or not
\* finish_callback running without the assignment of end_date
finish_callback_without_end_date(id) ==
    /\ last = NoCall
    /\ id \in DOMAIN handle
    /\ handle[id].callback = "scheduled"
    /\ handle' = [handle EXCEPT ![id].callback = "called"]
    /\ now' = Advance(now)
    /\ UNCHANGED last
    /\ UNCHANGED <<tasks, next_uuid>>

finish_callback(id) ==
    /\ last = NoCall
    /\ id \in DOMAIN handle
    /\ handle[id].callback = "scheduled"
    /\ handle' = [handle EXCEPT ![id].callback = "called"]
    /\ tasks' = IF id \in DOMAIN tasks THEN [tasks EXCEPT ![id].end_date = now]
                 ELSE tasks
    /\ now' = Advance(now)
    /\ UNCHANGED last
    /\ UNCHANGED next_uuid

\* the handler's return value is sent as the response and control is back
\* with the event loop
respond ==
    /\ last # NoCall
    /\ last' = NoCall
    /\ UNCHANGED <<tasks, handle, now, next_uuid>>

\* the lists a request can hold in the current state: a client names uuids
\* it was given, which uuid1() has generated, or a string that is no uuid
\* of the registry at all; it cannot name a uuid that uuid1() is still to
\* generate
Nameable(IdsSet) ==
    {ids \in IdsSet : ToSet(ids) \subseteq (1..(next_uuid - 1)) \cup {MaxTasks + 1}}

\* a handler, or a step of the event loop, runs when no call is in progress
Idle == last = NoCall

\* one step of the program, the requests taking their `ids` from IdsSet
Step(IdsSet) ==
    \/ Idle /\ \E name \in NameInputs, kwargs \in KwargsInputs : create_task(name, kwargs)
    \/ Idle /\ \E delay \in DelayInputs : create_sleep_task(delay)
    \/ Idle /\ \E ids \in Nameable(IdsSet) : recreate_tasks(ids)
    \/ Idle /\ read_tasks_all
    \/ Idle /\ \E ids \in Nameable(IdsSet) : read_tasks(ids)
    \/ Idle /\ cancel_tasks_all
    \/ Idle /\ \E ids \in Nameable(IdsSet) : cancel_tasks(ids)
    \/ Idle /\ delete_tasks_all
    \/ Idle /\ \E ids \in Nameable(IdsSet) : delete_tasks(ids)
    \/ \E id \in DOMAIN handle : task_finishes(id)
    \/ \E id \in DOMAIN handle : task_is_cancelled(id)
    \/ \E id \in DOMAIN handle : finish_callback(id)
    \/ respond

Next == Step(IdsInputs)

Spec == Init /\ [][Next]_vars

(***************************************************************************)
(* Fairness of the event loop.  The loop runs what is in its ready queue   *)
(* in the order it was put there, so the step of a task and a scheduled    *)
(* done callback are run however many requests keep arriving (strong       *)
(* fairness); a handler that has returned has its response sent.           *)
(***************************************************************************)
Fairness ==
    /\ WF_vars(respond)
    /\ \A id \in 1..MaxTasks :
        /\ SF_vars(task_finishes(id))
        /\ SF_vars(task_is_cancelled(id))
        /\ SF_vars(finish_callback(id))

\* the requests that name at most one uuid
OneIdInputs == {ids \in IdsInputs : Len(ids) <= 1}

LiveNext == Step(OneIdInputs)

LiveSpec == Init /\ [][LiveNext]_vars /\ Fairness

(***************************************************************************)
(* What the properties below read.                                         *)
(***************************************************************************)
\* a handler is returning `op` from the state the loop was in
Returns(op) == last = NoCall /\ last'.op = op

\* the derived state of a record, as a read reports it
StateOf(id) == _get_task_info(Cur, id).state

InFlight(id) == id \in DOMAIN tasks /\ StateOf(id) \in {"PENDING", "STARTED", "RETRY"}

Terminal(id) == id \in DOMAIN tasks /\ StateOf(id) \in {"SUCCESS", "FAILURE", "REVOKED"}

\* the entries of a result list that are about uuid `id`
EntriesFor(ret, id) == {i \in 1..Len(ret) : ret[i].uuid = id}

IsNotFound(e) == e.kind = "ErrorInfo" /\ e.error_msg = "the task does not exist"

IsNotInProcess(e) == e.kind = "ErrorInfo" /\ e.error_msg = "task is not in process"

\* the records of the same task name and keyword arguments
SameWork(a, b) == handle[a].name = handle[b].name /\ tasks[a].kwargs = tasks[b].kwargs

(***************************************************************************)
(* C1  Deduplication.  In every state the registry holds at most one       *)
(* in-process record per (task name, kwargs); and a create whose name and  *)
(* kwargs equal those of an in-process record returns that record's uuid,  *)
(* leaves the registry as it is and creates no asyncio.Task.               *)
(***************************************************************************)
C1_OnePerKey ==
    \A a, b \in DOMAIN tasks : InFlight(a) /\ InFlight(b) /\ SameWork(a, b) => a = b

C1_CreateStep ==
    Returns("create") =>
        \A id \in DOMAIN tasks :
            (InFlight(id) /\ handle[id].name = last'.name
                          /\ tasks[id].kwargs = last'.kwargs)
            => /\ ~last'.raised
               /\ last'.ret = <<id>>
               /\ tasks' = tasks
               /\ handle' = handle
               /\ next_uuid' = next_uuid

\* C1: at most one in-process record per (name, kwargs), and a create of
\* an in-process (name, kwargs) returns its uuid and changes nothing
C1_Deduplication == [](C1_OnePerKey) /\ [][C1_CreateStep]_vars

\* C1: a create has returned the uuid of an in-process record that it did
\* not make
C1_Witness ==
    /\ last.op = "create"
    /\ ~last.raised
    /\ last.ret[1] # next_uuid - 1
    /\ InFlight(last.ret[1])

(***************************************************************************)
(* C2  Delete finality.  A delete applied to a uuid of the registry leaves *)
(* the uuid absent; a uuid that uuid1() generated and that is absent stays *)
(* absent, every read, cancel or delete naming it returns a NotFound entry *)
(* for it, and no create returns it.                                       *)
(***************************************************************************)
DeleteApplied(id) ==
    /\ Returns("delete")
    /\ id \in DOMAIN tasks
    /\ (last'.given => id \in ToSet(last'.ids))

Gone(id) == id < next_uuid /\ id \notin DOMAIN tasks

C2_Step ==
    \A id \in IdInputs :
        /\ DeleteApplied(id) => id \notin DOMAIN tasks'
        /\ Gone(id) =>
            /\ id \notin DOMAIN tasks'
            /\ (last'.op \in {"read", "cancel", "delete"} /\ last'.given
                    /\ id \in ToSet(last'.ids))
               => \E i \in EntriesFor(last'.ret, id) : IsNotFound(last'.ret[i])
            /\ (last'.op = "create" /\ ~last'.raised) => last'.ret # <<id>>

\* C2: a deleted uuid is absent from then on, reads as NotFound and is
\* never returned by a create
C2_DeleteFinality == [][C2_Step]_vars

\* the step of C2, of the deletes that name the uuid
C2_NamedStep ==
    \A id \in IdInputs :
        /\ (DeleteApplied(id) /\ last'.given) => id \notin DOMAIN tasks'
        /\ Gone(id) =>
            /\ id \notin DOMAIN tasks'
            /\ (last'.op \in {"read", "cancel", "delete"} /\ last'.given
                    /\ id \in ToSet(last'.ids))
               => \E i \in EntriesFor(last'.ret, id) : IsNotFound(last'.ret[i])
            /\ (last'.op = "create" /\ ~last'.raised) => last'.ret # <<id>>

\* the finality of the deletes that name the uuid
C2_NamedDeleteFinality == [][C2_NamedStep]_vars

(***************************************************************************)
(* C3  Delete without ids.  When delete_tasks() returns, cancellation has  *)
(* been requested of every task that was not done, the registry is empty   *)
(* and the result holds no entry.                                          *)
(***************************************************************************)
C3_Step ==
    (Returns("delete") /\ ~last'.given) =>
        /\ \A id \in DOMAIN tasks :
              ~done(handle[id]) => handle'[id].must_cancel
        /\ DOMAIN tasks' = {}
        /\ last'.ret = <<>>

\* C3: delete_tasks() cancels what is running, empties the registry and
\* returns no entry
C3_DeleteAll == [][C3_Step]_vars

(***************************************************************************)
(* C4  Cancel without ids.  cancel_tasks() requests cancellation of every  *)
(* in-process record, leaves every terminal record as it is (end_date      *)
(* included) and returns the empty list.                                   *)
(***************************************************************************)
C4_Step ==
    (Returns("cancel") /\ ~last'.given) =>
        /\ \A id \in DOMAIN tasks :
              /\ InFlight(id) => handle'[id].must_cancel
              /\ Terminal(id) => (tasks'[id] = tasks[id] /\ handle'[id] = handle[id])
        /\ last'.ret = <<>>

\* C4: cancel_tasks() cancels the in-process records, leaves the terminal
\* ones as they are and returns no entry
C4_CancelAll == [][C4_Step]_vars

(***************************************************************************)
(* C5  end_date is never set while the task is in flight: a record whose   *)
(* end_date is set has the derived state SUCCESS, FAILURE or REVOKED.      *)
(***************************************************************************)
\* C5: end_date is set only on records whose derived state is terminal
C5_EndDateOnlyWhenTerminal ==
    \A id \in DOMAIN tasks : tasks[id].end_date # NoDate => Terminal(id)

(***************************************************************************)
(* C6  end_date is set at most once: once a record's end_date has a value, *)
(* no step gives it another.                                               *)
(***************************************************************************)
C6_Step ==
    \A id \in DOMAIN tasks \cap DOMAIN tasks' :
        tasks[id].end_date # NoDate => tasks'[id].end_date = tasks[id].end_date

\* C6: an end_date that is set is never assigned again
C6_EndDateSetOnce == [][C6_Step]_vars

(***************************************************************************)
(* C7  Cancel precondition.  cancel_tasks(ids) naming a record whose       *)
(* derived state is terminal returns a NotInProcess entry for it, does not *)
(* touch its asyncio.Task and leaves its end_date as it was.               *)
(***************************************************************************)
C7_Step ==
    (Returns("cancel") /\ last'.given) =>
        \A id \in ToSet(last'.ids) :
            Terminal(id) =>
                /\ \E i \in EntriesFor(last'.ret, id) : IsNotInProcess(last'.ret[i])
                /\ handle'[id] = handle[id]
                /\ tasks'[id].end_date = tasks[id].end_date

\* C7: cancelling a terminal record by uuid returns NotInProcess and
\* changes neither its task nor its end_date
C7_CancelPrecondition == [][C7_Step]_vars

\* C7: a cancel has returned a NotInProcess entry for a terminal record
C7_Witness ==
    /\ last.op = "cancel"
    /\ last.given
    /\ \E i \in 1..Len(last.ret) :
          IsNotInProcess(last.ret[i]) /\ Terminal(last.ret[i].uuid)

(***************************************************************************)
(* C8  Bulk-cancel isolation.  The result of cancel_tasks(ids) holds one   *)
(* entry, NotFound, for each distinct uuid of ids that is not in the       *)
(* registry, one entry, NotInProcess, for each that is terminal, and none  *)
(* for any other uuid; cancellation is requested of every in-process       *)
(* record that ids names.                                                  *)
(***************************************************************************)
C8_Step ==
    (Returns("cancel") /\ last'.given) =>
        \A id \in IdInputs :
            LET entries == EntriesFor(last'.ret, id) IN
            /\ (id \in ToSet(last'.ids) /\ id \notin DOMAIN tasks) =>
                  /\ Cardinality(entries) = 1
                  /\ \A i \in entries : IsNotFound(last'.ret[i])
            /\ (id \in ToSet(last'.ids) /\ Terminal(id)) =>
                  /\ Cardinality(entries) = 1
                  /\ \A i \in entries : IsNotInProcess(last'.ret[i])
            /\ (id \in ToSet(last'.ids) /\ InFlight(id)) =>
                  /\ entries = {}
                  /\ handle'[id].must_cancel
            /\ id \notin ToSet(last'.ids) => entries = {}

\* C8: one NotFound entry per unknown uuid, one NotInProcess entry per
\* terminal one, none for the others, every in-process one cancelled
C8_BulkCancelIsolation == [][C8_Step]_vars

\* C8: a cancel of an unknown uuid, a terminal record and an in-process
\* one has returned
C8_Witness ==
    /\ last.op = "cancel"
    /\ last.given
    /\ \E i, j \in 1..Len(last.ret) :
          IsNotFound(last.ret[i]) /\ IsNotInProcess(last.ret[j])
    /\ \E id \in ToSet(last.ids) :
          /\ InFlight(id)
          /\ handle[id].must_cancel

(***************************************************************************)
(* C9  Cancel liveness.  The record a create has just returned reads as    *)
(* STARTED.  Under the fairness of the event loop, a record in flight on   *)
(* which cancellation has been requested comes to read, for as long as it  *)
(* is in the registry, as REVOKED with end_date set and no result; and a   *)
(* record that reads as REVOKED reads so in every later state in which it  *)
(* is in the registry.                                                     *)
(***************************************************************************)
CancelRequested(id) ==
    /\ id \in DOMAIN tasks
    /\ handle[id].must_cancel
    /\ StateOf(id) = "STARTED"

ReadsRevoked(id) ==
    /\ id \in DOMAIN tasks
    /\ _get_task_info(Cur, id).state = "REVOKED"
    /\ _get_task_info(Cur, id).end_date # NoDate
    /\ _get_task_info(Cur, id).result = None

C9_ReadAfterCreate ==
    (last.op = "create" /\ ~last.raised) => StateOf(last.ret[1]) = "STARTED"

C9_StaysRevoked ==
    \A id \in DOMAIN tasks \cap DOMAIN tasks' :
        ReadsRevoked(id) => ReadsRevoked(id)'

\* C9: STARTED right after create; cancelled in flight leads to REVOKED
\* with end_date set and no result; REVOKED is stable
C9_CancelLiveness ==
    /\ [](C9_ReadAfterCreate)
    /\ \A id \in 1..MaxTasks :
          CancelRequested(id) ~> (id \notin DOMAIN tasks \/ ReadsRevoked(id))
    /\ [][C9_StaysRevoked]_vars

\* C9: a read has returned a record as REVOKED, its task cancelled and its
\* done callback run
C9_Witness ==
    \E id \in DOMAIN tasks :
        /\ ReadsRevoked(id)
        /\ handle[id].callback = "called"
        /\ last.op = "read"
        /\ \E i \in 1..Len(last.ret) : last.ret[i] = _get_task_info(Cur, id)

(***************************************************************************)
(* C10  Read with ids.  The result of read_tasks(ids) holds exactly one    *)
(* entry for each distinct uuid of ids, the TaskInfo of the record when    *)
(* the uuid is in the registry and a NotFound entry when not, and no other *)
(* entry.                                                                  *)
(***************************************************************************)
\* C10: read_tasks(ids) returns exactly one entry, the right one, per
\* distinct uuid of ids
C10_ReadOnePerIdentity ==
    (last.op = "read" /\ last.given) =>
        \A id \in IdInputs :
            LET entries == EntriesFor(last.ret, id) IN
            /\ Cardinality(entries) = (IF id \in ToSet(last.ids) THEN 1 ELSE 0)
            /\ \A i \in entries :
                  last.ret[i] = (IF id \in DOMAIN tasks THEN _get_task_info(Cur, id)
                                 ELSE not_exist_data(id))

(***************************************************************************)
(* C11  State derivation.  The derived state of a record of the registry   *)
(* is STARTED exactly when its task is not done, SUCCESS exactly when it   *)
(* is done with a result, FAILURE exactly when it is done with an          *)
(* exception, REVOKED exactly when it is done by cancellation, and never   *)
(* PENDING or RETRY; no TaskInfo a handler returns has the state PENDING   *)
(* or RETRY.                                                               *)
(***************************************************************************)
IsTaskInfo(e) == e.kind = "TaskInfo"

C11_Derived(id) ==
    /\ StateOf(id) = "STARTED" <=> handle[id].status = "pending"
    /\ StateOf(id) = "SUCCESS" <=> handle[id].status = "finished"
    /\ StateOf(id) = "FAILURE" <=> handle[id].status = "failed"
    /\ StateOf(id) = "REVOKED" <=> handle[id].status = "cancelled"
    /\ StateOf(id) \notin {"PENDING", "RETRY"}

\* C11: the derived state follows the status of the task and is never
\* PENDING or RETRY, in the registry and in what the handlers return
C11_StateDerivation ==
    /\ \A id \in DOMAIN tasks : C11_Derived(id)
    /\ last.op \in {"read", "recreate", "create_sleep_task"} =>
          \A i \in 1..Len(last.ret) :
              IsTaskInfo(last.ret[i]) => last.ret[i].state \notin {"PENDING", "RETRY"}

\* C11: a read has returned one record as SUCCESS and another as REVOKED
C11_Witness ==
    /\ last.op = "read"
    /\ \E i, j \in 1..Len(last.ret) :
          /\ IsTaskInfo(last.ret[i]) /\ last.ret[i].state = "SUCCESS"
          /\ IsTaskInfo(last.ret[j]) /\ last.ret[j].state = "REVOKED"

(***************************************************************************)
(* C12  Bulk recreate.  recreate_tasks(ids) returns one NotFound entry for *)
(* each distinct uuid of ids that is not in the registry, one InProcess    *)
(* entry for each that is in process, and one TaskInfo for each that is    *)
(* terminal (a template).  As claimed, every TaskInfo is that of a task    *)
(* the call created, one per template, under a uuid that was not in the    *)
(* registry.  As the code has it, the TaskInfo is what _create_task gives  *)
(* for the template's name and kwargs: a new record, or the in-process     *)
(* record of that name and kwargs, there before the call or made earlier   *)
(* in it.  No record that was in the registry is changed.                  *)
(***************************************************************************)
IsInProcess(e) == e.kind = "ErrorInfo" /\ e.error_msg = "task is in process"

ErrorsFor(ret, id) == {i \in EntriesFor(ret, id) : ret[i].kind = "ErrorInfo"}

TaskInfos(ret) == {i \in 1..Len(ret) : IsTaskInfo(ret[i])}

\* the terminal records that a request names
Templates(ids) == {id \in ToSet(ids) : Terminal(id)}

\* the TaskInfo e is of the name and kwargs of template t and STARTED
Clones(e, t) ==
    /\ e.name = handle[t].name
    /\ e.kwargs = tasks[t].kwargs
    /\ e.state = "STARTED"

\* the in-process records of the name and kwargs of template t
InFlightLike(t) ==
    {id \in DOMAIN tasks : InFlight(id) /\ handle[id].name = handle[t].name
                                        /\ tasks[id].kwargs = tasks[t].kwargs}

\* what the claim and the code agree on: the error entries, one TaskInfo
\* per template, the records of the registry unchanged
C12_Common ==
    /\ ~last'.raised
    /\ \A id \in IdInputs :
          LET errors == ErrorsFor(last'.ret, id) IN
          /\ (id \in ToSet(last'.ids) /\ id \notin DOMAIN tasks) =>
                /\ Cardinality(errors) = 1
                /\ \A i \in errors : IsNotFound(last'.ret[i])
          /\ (id \in ToSet(last'.ids) /\ InFlight(id)) =>
                /\ Cardinality(errors) = 1
                /\ \A i \in errors : IsInProcess(last'.ret[i])
          /\ (id \notin ToSet(last'.ids) \/ Terminal(id)) => errors = {}
    /\ Cardinality(TaskInfos(last'.ret)) = Cardinality(Templates(last'.ids))
    /\ \A t \in Templates(last'.ids) :
          \E i \in TaskInfos(last'.ret) : Clones(last'.ret[i], t)
    /\ \A id \in DOMAIN tasks : id \in DOMAIN tasks' /\ tasks'[id] = tasks[id]
    /\ \A id \in DOMAIN handle : handle'[id] = handle[id]

C12_ClaimedStep ==
    Returns("recreate") =>
        /\ C12_Common
        /\ \A i \in TaskInfos(last'.ret) : last'.ret[i].uuid \notin DOMAIN tasks
        /\ Cardinality(DOMAIN handle' \ DOMAIN handle)
             = Cardinality(Templates(last'.ids))

C12_AmendedStep ==
    Returns("recreate") =>
        /\ C12_Common
        /\ \A i \in TaskInfos(last'.ret) :
              \E t \in Templates(last'.ids) :
                  /\ Clones(last'.ret[i], t)
                  /\ IF InFlightLike(t) # {}
                     THEN last'.ret[i].uuid \in InFlightLike(t)
                     ELSE last'.ret[i].uuid \in DOMAIN handle' \ DOMAIN handle
        /\ Cardinality(DOMAIN handle' \ DOMAIN handle)
             = Cardinality({<<handle[t].name, tasks[t].kwargs>> :
                              t \in {u \in Templates(last'.ids) : InFlightLike(u) = {}}})
        /\ DOMAIN tasks' \ DOMAIN tasks = DOMAIN handle' \ DOMAIN handle

CreateLike(t) ==
    /\ Returns("create")
    /\ last'.name = handle[t].name
    /\ last'.kwargs = tasks[t].kwargs

\* the create that is returning made a task, under a uuid that no record
\* ever had
CreatedNew ==
    /\ ~last'.raised
    /\ last'.ret[1] \notin DOMAIN handle
    /\ DOMAIN handle' = DOMAIN handle \cup {last'.ret[1]}
    /\ DOMAIN tasks' = DOMAIN tasks \cup {last'.ret[1]}
    /\ handle'[last'.ret[1]].status = "pending"

C13_Common(t) ==
    /\ ~last'.raised
    /\ last'.ret # <<t>>
    /\ t \in DOMAIN tasks'
    /\ tasks'[t] = tasks[t]
    /\ handle'[t] = handle[t]

C13_ClaimedStep ==
    \A t \in DOMAIN tasks :
        (Terminal(t) /\ CreateLike(t)) => (C13_Common(t) /\ CreatedNew)

\* C13 as claimed: a create after a terminal record always makes a new task
C13_AlwaysNewAfterTerminal == [][C13_ClaimedStep]_vars

C13_AmendedStep ==
    \A t \in DOMAIN tasks :
        (Terminal(t) /\ CreateLike(t)) =>
            /\ C13_Common(t)
            /\ IF InFlightLike(t) = {}
               THEN CreatedNew
               ELSE /\ last'.ret[1] \in InFlightLike(t)
                    /\ tasks' = tasks
                    /\ handle' = handle

\* C13 as amended: a create after a terminal record never returns it, and
\* makes a new task unless one of that name and kwargs is in process
C13_PostTerminalDistinctness == [][C13_AmendedStep]_vars

\* C13: a create has made a record of the name and kwargs of a terminal one
C13_Witness ==
    /\ last.op = "create"
    /\ ~last.raised
    /\ last.ret[1] = next_uuid - 1
    /\ \E t \in DOMAIN tasks :
          /\ t # last.ret[1]
          /\ Terminal(t)
          /\ SameWork(t, last.ret[1])
          /\ tasks[t].start_date < tasks[last.ret[1]].start_date

(***************************************************************************)
(* C14  Error codes.  Every error entry that a call returns carries the    *)
(* code of its kind: 0 for a task that does not exist, 1 for a task in     *)
(* process, 2 for a task not in process.                                   *)
(***************************************************************************)
C14_CodeOf(e) ==
    CASE IsNotFound(e) -> 0
      [] IsInProcess(e) -> 1
      [] IsNotInProcess(e) -> 2

\* C14: each error entry of a returned list has the code of its kind, so
\* entries of different kinds differ in code
C14_ErrorCodes ==
    \A i \in 1..Len(last.ret) :
        (last.op \in {"recreate", "read", "cancel", "delete"} /\ last.ret[i].kind = "ErrorInfo")
            => last.ret[i].error_code = C14_CodeOf(last.ret[i])

(***************************************************************************)
(* C15  Create of an unregistered name.  A create whose name the factory   *)
(* does not have fails, and leaves the registry and the tasks as they      *)
(* were: no record added, none changed, no task started.                   *)
(***************************************************************************)
C15_Step ==
    (Returns("create") /\ last'.name \notin factory) =>
        /\ last'.raised
        /\ last'.ret = <<>>
        /\ tasks' = tasks
        /\ handle' = handle
        /\ next_uuid' = next_uuid

\* C15: a create with a name that is not in the factory raises and changes
\* neither the registry nor the set of tasks
C15_UnknownNameFails == [][C15_Step]_vars

\* C15: a create of an unregistered name has raised, with a record in the
\* registry
C15_Witness ==
    /\ last.op = "create"
    /\ last.name \notin factory
    /\ last.raised
    /\ DOMAIN tasks # {}

(***************************************************************************)
(* C16  Create single.  create_sleep_task, with any delay, returns the     *)
(* TaskInfo of a record that is in the registry when it returns, in state  *)
(* STARTED, of the name and kwargs of the request.                         *)
(***************************************************************************)
\* C16: a create_sleep_task that has returned did not raise, and returned
\* the TaskInfo of a record present in the registry, in state STARTED
C16_CreateSingle ==
    last.op = "create_sleep_task" =>
        /\ ~last.raised
        /\ Len(last.ret) = 1
        /\ IsTaskInfo(last.ret[1])
        /\ last.ret[1].uuid \in DOMAIN tasks
        /\ last.ret[1].state = "STARTED"
        /\ last.ret[1].kwargs = last.kwargs

(***************************************************************************)
(* C17  Frame of the registry.  A read changes nothing.  A cancel, a       *)
(* recreate that returns only errors, and a step of a task or of its       *)
(* callback neither add nor remove a uuid.  Only a create or a recreate    *)
(* adds a uuid, only a delete removes one, and of a record that stays only *)
(* end_date ever changes.                                                  *)
(***************************************************************************)
\* the step is the return of a call of one of the operations ops
ReturnsOneOf(ops) == last = NoCall /\ last'.op \in ops

\* the step is one of the event loop: a task ends, or its callback runs
LoopStep == last = NoCall /\ last' = NoCall

C17_Step ==
    /\ Returns("read") => (tasks' = tasks /\ handle' = handle /\ next_uuid' = next_uuid)
    /\ (Returns("cancel") \/ LoopStep) => DOMAIN tasks' = DOMAIN tasks
    /\ (Returns("recreate") /\ TaskInfos(last'.ret) = {}) => DOMAIN tasks' = DOMAIN tasks
    /\ DOMAIN tasks' \ DOMAIN tasks # {} =>
           ReturnsOneOf({"create", "create_sleep_task", "recreate"})
    /\ DOMAIN tasks \ DOMAIN tasks' # {} => Returns("delete")
    /\ \A id \in DOMAIN tasks \cap DOMAIN tasks' :
           /\ tasks'[id].uuid = tasks[id].uuid
           /\ tasks'[id].kwargs = tasks[id].kwargs
           /\ tasks'[id].start_date = tasks[id].start_date
           /\ handle'[id].name = handle[id].name

\* C17: reads change nothing, uuids are added only by a create or recreate
\* and removed only by a delete, and only end_date of a record changes
C17_RegistryFrame == [][C17_Step]_vars

\* C17: a cancel has returned having changed end_date of a record in a
\* registry of two records
C17_Witness ==
    /\ last.op = "cancel"
    /\ last.given
    /\ Len(last.ids) = 1
    /\ Cardinality(DOMAIN tasks) = 2
    /\ \E id \in DOMAIN tasks :
          /\ last.ids = <<id>>
          /\ handle[id].must_cancel
          /\ tasks[id].end_date # NoDate

(***************************************************************************)
(* C18  No orphaned work after delete.  A delete that names a uuid in the  *)
(* registry removes the record and, in the same step, requests the         *)
(* cancellation of its task exactly when the task is not done.  So a task  *)
(* whose record is gone is done or has its cancellation requested, and it  *)
(* ends.                                                                   *)
(***************************************************************************)
\* the tasks that were started and whose record is no longer in the registry
Orphans == DOMAIN handle \ DOMAIN tasks

C18_Step ==
    (Returns("delete") /\ last'.given) =>
        \A id \in ToSet(last'.ids) \cap DOMAIN tasks :
            /\ id \notin DOMAIN tasks'
            /\ handle'[id] = IF done(handle[id])
                             THEN handle[id]
                             ELSE [handle[id] EXCEPT !.must_cancel = TRUE]

C18_Covered == \A id \in Orphans : done(handle[id]) \/ handle[id].must_cancel

C18_Ends == \A id \in 1..MaxTasks : (id \in Orphans) ~> (id \in Orphans /\ done(handle[id]))

\* C18: a named delete removes the record and requests cancellation of a
\* task that is not done, in one step; every task without a record is done
\* or cancel-requested, and eventually done
C18_NoOrphanedWork == [][C18_Step]_vars /\ []C18_Covered /\ C18_Ends

\* C18: a delete has removed the record of a task that was not done, which
\* now has its cancellation requested
C18_Witness ==
    /\ last.op = "delete"
    /\ last.given
    /\ \E id \in ToSet(last.ids) \cap Orphans :
          /\ handle[id].status = "pending"
          /\ handle[id].must_cancel

(***************************************************************************)
(* C19  A terminal state implies end_date.  As claimed, in every state,    *)
(* those between the end of a task and the run of finish_callback too, a   *)
(* record that reads SUCCESS, FAILURE or REVOKED has end_date set.  As the *)
(* code has it, that holds of the records whose finish_callback has run.   *)
(***************************************************************************)
TerminalStates == {"SUCCESS", "FAILURE", "REVOKED"}

\* the entries of a returned list that show a terminal state without end_date
Unstamped(ret) ==
    {i \in TaskInfos(ret) : ret[i].state \in TerminalStates /\ ret[i].end_date = NoDate}

\* C19 as claimed: every terminal record has end_date set, and no read
\* returns a terminal TaskInfo without end_date
C19_TerminalImpliesEndDate ==
    /\ \A id \in DOMAIN tasks : Terminal(id) => tasks[id].end_date # NoDate
    /\ last.op = "read" => Unstamped(last.ret) = {}

\* C19 as amended: every terminal record whose finish_callback has run has
\* end_date set, and a read returns no terminal TaskInfo without end_date
\* for such a record
C19_TerminalAfterCallback ==
    /\ \A id \in DOMAIN tasks :
           (Terminal(id) /\ handle[id].callback = "called") => tasks[id].end_date # NoDate
    /\ last.op = "read" =>
           \A i \in Unstamped(last.ret) : handle[last.ret[i].uuid].callback # "called"

\* C19: a read has returned the TaskInfo of a record that ended without a
\* cancel and whose finish_callback has run
C19_Witness ==
    /\ last.op = "read"
    /\ \E i \in TaskInfos(last.ret) :
          /\ last.ret[i].state = "SUCCESS"
          /\ last.ret[i].end_date # NoDate
          /\ handle[last.ret[i].uuid].callback = "called"

(***************************************************************************)
(* C20  A create never hands out a task that is being cancelled.  The uuid *)
(* that a create returns, of a new record or of a duplicate, is of a task  *)
(* on which no cancellation is requested when the create returns.          *)
(***************************************************************************)
\* C20: the record whose uuid a create has returned has no cancellation
\* requested on its task
C20_CreateNotBeingCancelled ==
    (last.op = "create" /\ ~last.raised) =>
        /\ last.ret[1] \in DOMAIN handle
        /\ ~handle[last.ret[1]].must_cancel

============================================================================
